---- MODULE Spec2Model ----
\* Model of the data-collection tree server (src/visualization-tool.js):
\* the name registry, the prefix matcher, the folder grouper, the tree
\* builder in its two modes, the Markdown renderer, the snapshot writer and
\* the GET /get-tree request handler.
\*
\* Strings of the program are sequences of one-character strings, so that
\* startsWith, endsWith, split and replace are computed, not assumed.
EXTENDS Integers, Sequences, FiniteSets, TLC

VARIABLES
    INSTANCE_NAMES,        \* the registry parsed at startup (line 20)
    fs,                    \* the data_collection directory (external)
    specificActivityName,  \* the implicit global assigned at line 190
    now,                   \* the local clock read by saveMarkdownFile, in seconds
    historyExists,         \* whether public/tree_history exists
    history,               \* files of public/tree_history: file name -> content
    response,              \* the reply sent by the last request
    trace,                 \* what the last request did (observation only)
    firstTree,             \* first tree returned per mode (observation only)
    call                   \* last direct call of a helper function and its result

vars == <<INSTANCE_NAMES, fs, specificActivityName, now, historyExists,
          history, response, trace, firstTree, call>>

----------------------------------------------------------------------------
\* Bounds of the model

\* longest directory listing of data_collection drawn at start
MaxRootEntries == 2
\* last second the clock reaches
MaxClock == 1

----------------------------------------------------------------------------
\* Generic sequence helpers

Min(S) == CHOOSE x \in S : \A y \in S : x <= y

\* const x = val; Body(x): val is computed once
With(val, Body(_)) == CHOOSE r \in { Body(x) : x \in { val } } : TRUE

\* the sequence f with every element computed once
Array(f) == f \o << >>

RECURSIVE FlattenFrom(_, _)
FlattenFrom(ss, i) == IF i > Len(ss) THEN << >> ELSE ss[i] \o FlattenFrom(ss, i + 1)

\* the concatenation of a sequence of sequences
Flatten(seqs) == With(Array(seqs), LAMBDA ss : FlattenFrom(ss, 1))

RECURSIVE SelectIdx(_, _)
\* the increasing sequence of the indices 1..n that lie in the set keep
SelectIdx(n, keep) ==
    IF n = 0 THEN << >>
    ELSE IF n \in keep THEN Append(SelectIdx(n - 1, keep), n)
         ELSE SelectIdx(n - 1, keep)

Range(s) == { s[i] : i \in DOMAIN s }

----------------------------------------------------------------------------
\* JavaScript string operations on character sequences

\* String.prototype.startsWith
startsWith(name, prefix) ==
    /\ Len(prefix) <= Len(name)
    /\ SubSeq(name, 1, Len(prefix)) = prefix

\* String.prototype.endsWith
endsWith(name, suffix) ==
    /\ Len(suffix) <= Len(name)
    /\ SubSeq(name, Len(name) - Len(suffix) + 1, Len(name)) = suffix

\* String.prototype.indexOf, 1-based; 0 when pat does not occur
indexOf(s, pat) ==
    LET hits == { i \in 1..(Len(s) - Len(pat) + 1) :
                    SubSeq(s, i, i + Len(pat) - 1) = pat }
    IN  IF hits = {} THEN 0 ELSE Min(hits)

\* String.prototype.replace(pat, rep) with a string pattern: first occurrence only
replace(s, pat, rep) ==
    LET i == indexOf(s, pat)
    IN  IF i = 0 THEN s
        ELSE SubSeq(s, 1, i - 1) \o rep \o SubSeq(s, i + Len(pat), Len(s))

RECURSIVE split(_, _)
\* String.prototype.split(sep) for a one-character separator
split(s, sep) ==
    LET i == indexOf(s, <<sep>>)
    IN  IF i = 0 THEN << s >>
        ELSE << SubSeq(s, 1, i - 1) >> \o split(SubSeq(s, i + 1, Len(s)), sep)

\* the value of an array element or a property that does not exist
UNDEFINED == << "<undefined>" >>

\* array[i] for a 0-based index i
at(arr, i) == IF i + 1 \in DOMAIN arr THEN arr[i + 1] ELSE UNDEFINED

\* Array.prototype.pop() read for its return value
pop(arr) == IF arr = << >> THEN UNDEFINED ELSE arr[Len(arr)]

\* `${value}` in a template literal
toText(v) ==
    IF v = UNDEFINED THEN << "u","n","d","e","f","i","n","e","d" >> ELSE v

Lower == << "a","b","c","d","e","f","g","h","i","j","k","l","m",
            "n","o","p","q","r","s","t","u","v","w","x","y","z" >>
Upper == << "A","B","C","D","E","F","G","H","I","J","K","L","M",
            "N","O","P","Q","R","S","T","U","V","W","X","Y","Z" >>

\* String.prototype.toUpperCase on one character
toUpperCase(c) ==
    IF \E i \in DOMAIN Lower : Lower[i] = c
    THEN Upper[CHOOSE i \in DOMAIN Lower : Lower[i] = c]
    ELSE c

Digits == << "0","1","2","3","4","5","6","7","8","9" >>
IsDigit(c) == \E i \in DOMAIN Digits : Digits[i] = c
DigitVal(c) == (CHOOSE i \in DOMAIN Digits : Digits[i] = c) - 1

RECURSIVE NumVal(_)
NumVal(s) ==
    IF s = << >> THEN 0
    ELSE 10 * NumVal(SubSeq(s, 1, Len(s) - 1)) + DigitVal(s[Len(s)])

\* a property key that is a canonical array index ("0", "7", "12", not "01")
IsArrayIndex(k) ==
    /\ Len(k) > 0
    /\ Len(k) <= 9
    /\ \A i \in DOMAIN k : IsDigit(k[i])
    /\ (Len(k) > 1 => k[1] # "0")

RECURSIVE ascending(_, _)
\* the names at the indices S, by increasing numeric value
ascending(names, S) ==
    IF S = {} THEN << >>
    ELSE LET m == CHOOSE i \in S : \A j \in S : NumVal(names[i]) <= NumVal(names[j])
         IN  << names[m] >> \o ascending(names, S \ {m})

\* variant: the keys come out last first
ownKeys_lastFirst(names) == [ i \in DOMAIN names |-> names[Len(names) + 1 - i] ]

\* the keys of Object.fromEntries(names.map(n => [n, []])) in the order
\* Object.entries enumerates them: array indices ascending, then the other
\* keys in insertion order, each key once
ownKeys(names) ==
    With({ i \in DOMAIN names : \A j \in 1..(i - 1) : names[j] # names[i] }, LAMBDA first :
    With({ i \in first : IsArrayIndex(names[i]) }, LAMBDA ints :
    With(SelectIdx(Len(names), first \ ints), LAMBDA ord :
        ascending(names, ints) \o Array([ i \in DOMAIN ord |-> names[ord[i]] ]))))

----------------------------------------------------------------------------
\* Outcome of a call: a returned value or a thrown exception, with the number
\* of directory reads (fs.readdirSync) the call made

Return(v, n) == [thrown |-> FALSE, value |-> v, reads |-> n]
Throw(n)     == [thrown |-> TRUE,  value |-> << >>, reads |-> n]

RECURSIVE sumReads(_, _)
sumReads(rs, n) == IF n = 0 THEN 0 ELSE rs[n].reads + sumReads(rs, n - 1)

\* forEach over calls that each contribute a list: the lists concatenated in
\* order, or the first exception, which ends the loop
forEach(calls) ==
    With(Array(calls), LAMBDA rs :
    With({ i \in DOMAIN rs : rs[i].thrown }, LAMBDA bad :
        IF bad = {}
        THEN Return(Flatten([ i \in DOMAIN rs |-> rs[i].value ]), sumReads(rs, Len(rs)))
        ELSE Throw(sumReads(rs, Min(bad)))))

----------------------------------------------------------------------------
\* The registry and the file system

\* null, and the state of a global that was never assigned
NULL == << "<null>" >>
UNDECLARED == << "<undeclared>" >>

\* JavaScript truthiness of a string-or-null value
Truthy(v) == v # NULL /\ v # UNDEFINED /\ v # << >>

\* INSTANCE_NAMES[className]: the prefix list, or undefined
registered(className) == className \in DOMAIN INSTANCE_NAMES

\* a directory entry (fs.Dirent with its content): a directory that can be
\* listed, a directory whose listing fails, or a plain file
Dir(name, entries) ==
    [name |-> name, isDir |-> TRUE, readable |-> TRUE, entries |-> entries]
BadDir(name) ==
    [name |-> name, isDir |-> TRUE, readable |-> FALSE, entries |-> << >>]
File(name) ==
    [name |-> name, isDir |-> FALSE, readable |-> FALSE, entries |-> << >>]

\* fs.readdirSync(path, {withFileTypes: true}): the entries in listing order;
\* throws for a missing or unreadable directory and for a plain file
readdirSync(dir) ==
    IF dir.isDir /\ dir.readable THEN Return(dir.entries, 1) ELSE Throw(1)

\* path.join(folder, name): the entry of that name in the folder
join(dir, name) ==
    LET hits == { i \in DOMAIN dir.entries : dir.entries[i].name = name }
    IN  IF hits = {} THEN BadDir(name) ELSE dir.entries[Min(hits)]

----------------------------------------------------------------------------
\* Prefix matcher and folder grouper

\* variant: the name must equal a registered prefix
isValidInstance_equals(name, className) ==
    IF ~registered(className) THEN Throw(0)
    ELSE Return(\E i \in DOMAIN INSTANCE_NAMES[className] :
                    name = INSTANCE_NAMES[className][i], 0)

isValidInstance(name, className) ==
    IF ~registered(className) THEN Throw(0)
    ELSE Return(\E i \in DOMAIN INSTANCE_NAMES[className] :
                    startsWith(name, INSTANCE_NAMES[className][i]), 0)

\* variant: plain files are grouped like directories
bucket_anyEntry(entries, leadingNames, key) ==
    Flatten([ e \in DOMAIN entries |->
        Flatten([ j \in DOMAIN leadingNames |->
            IF leadingNames[j] = key /\ startsWith(entries[e].name, leadingNames[j])
            THEN << entries[e].name >> ELSE << >> ]) ])

\* the bucket of one key: for each directory entry in listing order, one push
\* per registered name equal to the key that the entry's name starts with
bucket(entries, leadingNames, key) ==
    Flatten([ e \in DOMAIN entries |->
        IF entries[e].isDir
        THEN Flatten([ j \in DOMAIN leadingNames |->
                 IF leadingNames[j] = key /\ startsWith(entries[e].name, leadingNames[j])
                 THEN << entries[e].name >> ELSE << >> ])
        ELSE << >> ])

\* the grouped folders as Object.entries lists them: <<key, folder names>>
getGroupedFolders(folderPath, className) ==
    IF ~registered(className) THEN Throw(0)
    ELSE With(readdirSync(folderPath), LAMBDA listing :
         IF listing.thrown THEN Throw(listing.reads)
         ELSE With(ownKeys(INSTANCE_NAMES[className]), LAMBDA keys :
              Return(Array([ i \in DOMAIN keys |->
                         [key |-> keys[i],
                          folders |-> bucket(listing.value, INSTANCE_NAMES[className],
                                             keys[i])] ]),
                     listing.reads)))

----------------------------------------------------------------------------
\* Tree builder

\* the data-file extension
CSV == << ".", "c", "s", "v" >>

\* a leaf has a name only; a branch has a name and children
Leaf(name) == [name |-> name]
Node(name, children) == [name |-> name, children |-> children]

\* variant: a branch is pushed whatever it holds
pushIfAny_always(node) == << node >>

\* if (node.children.length > 0) parent.children.push(node)
pushIfAny(node) == IF Len(node.children) > 0 THEN << node >> ELSE << >>

\* variant: the data_type category is looked up for every entry
isCsvOfDataType_eager(file) ==
    With(isValidInstance(file, "data_type"), LAMBDA valid :
    IF valid.thrown THEN valid ELSE Return(endsWith(file, CSV) /\ valid.value, 0))

\* file => file.endsWith(".csv") && isValidInstance(file, 'data_type'): the
\* category is looked up only for a name that ends in .csv
isCsvOfDataType(file) ==
    IF endsWith(file, CSV) THEN isValidInstance(file, "data_type")
    ELSE Return(FALSE, 0)

\* variant: a file is kept once per data_type prefix its name starts with
csvFiles_perPrefix(activityPath) ==
    With(readdirSync(activityPath), LAMBDA listing :
    IF listing.thrown THEN Throw(listing.reads)
    ELSE With(Array([ i \in DOMAIN listing.value |->
                  [name |-> listing.value[i].name,
                   test |-> isCsvOfDataType(listing.value[i].name)] ]), LAMBDA files :
         IF \E i \in DOMAIN files : files[i].test.thrown THEN Throw(listing.reads)
         ELSE With(SelectSeq(files, LAMBDA f : f.test.value), LAMBDA kept :
              Return(Flatten([ i \in DOMAIN kept |->
                         Flatten([ j \in DOMAIN INSTANCE_NAMES["data_type"] |->
                             IF startsWith(kept[i].name, INSTANCE_NAMES["data_type"][j])
                             THEN << kept[i].name >> ELSE << >> ]) ]),
                     listing.reads))))

\* fs.readdirSync(activityPath).filter(file => file.endsWith(".csv") &&
\* isValidInstance(file, 'data_type')): the filter stops at the first file
\* for which isValidInstance throws
csvFiles(activityPath) ==
    With(readdirSync(activityPath), LAMBDA listing :
    IF listing.thrown THEN Throw(listing.reads)
    ELSE With(Array([ i \in DOMAIN listing.value |->
                  [name |-> listing.value[i].name,
                   test |-> isCsvOfDataType(listing.value[i].name)] ]), LAMBDA files :
         IF \E i \in DOMAIN files : files[i].test.thrown THEN Throw(listing.reads)
         ELSE With(SelectSeq(files, LAMBDA f : f.test.value), LAMBDA kept :
              Return(Array([ i \in DOMAIN kept |-> kept[i].name ]), listing.reads))))

\* one activity folder: its trial node, pushed only when it has a leaf
trialOf(userPath, activityFolder) ==
    With(csvFiles(join(userPath, activityFolder)), LAMBDA files :
    IF files.thrown THEN Throw(files.reads)
    ELSE With(Node(pop(split(activityFolder, "_")),
                   Array([ i \in DOMAIN files.value |->
                             Leaf(replace(files.value[i], CSV, << >>)) ])), LAMBDA trial :
         Return(pushIfAny(trial), files.reads)))

\* variant: every activity group is kept whatever the current activity is
keepGroup_all(current, activityInstanceName) == TRUE

\* specificActivityName ? activityInstanceName === specificActivityName : true
keepGroup(current, activityInstanceName) ==
    IF Truthy(current) THEN activityInstanceName = current ELSE TRUE

\* variant: no group is filtered out
filteredGroups_all(groups, current) == groups

\* the activity groups of a user folder that pass the filter, in order
filteredGroups(groups, current) ==
    SelectSeq(groups, LAMBDA g : keepGroup(current, g.key))

\* user mode, one user folder: the user-instance node with one activity node
\* per kept group
userModeInstance(rootFolder, userFolder, current) ==
    With(join(rootFolder, userFolder), LAMBDA userPath :
    With(getGroupedFolders(userPath, "activity"), LAMBDA activityGroups :
    IF activityGroups.thrown THEN Throw(activityGroups.reads)
    ELSE
    With(filteredGroups(activityGroups.value, current), LAMBDA groups :
    With(forEach([ g \in DOMAIN groups |->
             With(forEach([ f \in DOMAIN groups[g].folders |->
                               trialOf(userPath, groups[g].folders[f]) ]), LAMBDA trials :
                  IF trials.thrown THEN trials
                  ELSE Return(pushIfAny(Node(groups[g].key, trials.value)),
                              trials.reads)) ]), LAMBDA activities :
         IF activities.thrown THEN Throw(activityGroups.reads + activities.reads)
         ELSE Return(pushIfAny(Node(at(split(userFolder, "_"), 1), activities.value)),
                     activityGroups.reads + activities.reads)))))

\* activity mode, one user folder: the user-instance node holding the trials
\* of the kept groups directly
activityModeInstance(rootFolder, userFolder, current) ==
    With(join(rootFolder, userFolder), LAMBDA userPath :
    With(getGroupedFolders(userPath, "activity"), LAMBDA activityGroups :
    IF activityGroups.thrown THEN Throw(activityGroups.reads)
    ELSE
    With(filteredGroups(activityGroups.value, current), LAMBDA groups :
    With(forEach([ g \in DOMAIN groups |->
             forEach([ f \in DOMAIN groups[g].folders |->
                         trialOf(userPath, groups[g].folders[f]) ]) ]), LAMBDA trials :
         IF trials.thrown THEN Throw(activityGroups.reads + trials.reads)
         ELSE Return(pushIfAny(Node(at(split(userFolder, "_"), 1), trials.value)),
                     activityGroups.reads + trials.reads)))))

\* the user nodes of one pass over the user groups of the root folder
userNodes(rootFolder, current, mode) ==
    With(getGroupedFolders(rootFolder, "user"), LAMBDA userGroups :
    IF userGroups.thrown THEN Throw(userGroups.reads)
    ELSE
    With(forEach([ g \in DOMAIN userGroups.value |->
             With(forEach([ f \in DOMAIN userGroups.value[g].folders |->
                    IF mode = "user"
                    THEN userModeInstance(rootFolder, userGroups.value[g].folders[f], current)
                    ELSE activityModeInstance(rootFolder, userGroups.value[g].folders[f],
                                              current) ]), LAMBDA instances :
                  IF instances.thrown THEN instances
                  ELSE Return(pushIfAny(Node(userGroups.value[g].key, instances.value)),
                              instances.reads)) ]), LAMBDA users :
         IF users.thrown THEN Throw(userGroups.reads + users.reads)
         ELSE Return(users.value, userGroups.reads + users.reads)))

\* variant: the result array outlives the call and keeps what it held
newTree_kept(previous) == previous

\* const tree = []
newTree(previous) == << >>

\* variant: the global is left holding an activity name
resetSpecificActivityName_walk == << "w", "a", "l", "k" >>

\* the value line 190 assigns to the global
resetSpecificActivityName == NULL

\* buildTree(rootFolder, startingClassName); previous is the array returned
\* by the call before, which the new array does not share
buildTree(rootFolder, startingClassName, previous) ==
    IF startingClassName = "user"
    THEN With(userNodes(rootFolder, resetSpecificActivityName, "user"), LAMBDA users :
         IF users.thrown THEN users
         ELSE Return(newTree(previous) \o users.value, users.reads))
    ELSE IF startingClassName = "activity"
    THEN IF ~registered("activity") THEN Throw(0)
         ELSE With(forEach([ a \in DOMAIN INSTANCE_NAMES["activity"] |->
                       With(userNodes(rootFolder, INSTANCE_NAMES["activity"][a], "activity"),
                            LAMBDA users :
                               IF users.thrown THEN users
                               ELSE Return(pushIfAny(Node(INSTANCE_NAMES["activity"][a],
                                                          users.value)),
                                           users.reads)) ]), LAMBDA activities :
              IF activities.thrown THEN activities
              ELSE Return(newTree(previous) \o activities.value, activities.reads))
    ELSE Return(UNDEFINED, 0)

----------------------------------------------------------------------------
\* Markdown renderer

RECURSIVE repeat(_, _)
\* String.prototype.repeat
repeat(str, n) == IF n = 0 THEN << >> ELSE str \o repeat(str, n - 1)

\* name.charAt(0).toUpperCase() + name.slice(1)
capitalize(name) ==
    IF name = << >> THEN << >> ELSE << toUpperCase(name[1]) >> \o Tail(name)

hasChildren(node) == "children" \in DOMAIN node /\ Len(node.children) > 0

\* variant: the children are not rendered
treeToMarkdown_flat(tree, level) ==
    Flatten([ i \in DOMAIN tree |->
        << "#", "#", " " >> \o capitalize(tree[i].name) \o << "\n" >> ])

RECURSIVE treeToMarkdown(_, _)
treeToMarkdown(tree, level) ==
    Flatten([ i \in DOMAIN tree |->
        (IF level = 0
         THEN repeat(<< " ", " " >>, level) \o << "#", "#", " " >>
                \o capitalize(tree[i].name) \o << "\n" >>
         ELSE repeat(<< " ", " " >>, level) \o << "-", " " >>
                \o toText(tree[i].name) \o << "\n" >>)
        \o (IF hasChildren(tree[i])
            THEN treeToMarkdown(tree[i].children, level + 1)
            ELSE << >>) ])

\* '# Data Collection\n'
Title == << "#", " ", "D","a","t","a", " ", "C","o","l","l","e","c","t","i","o","n", "\n" >>

----------------------------------------------------------------------------
\* Browser client (app.js)

\* node.name of a node received as JSON: undefined when the property is absent
nameOf(node) == IF "name" \in DOMAIN node THEN node.name ELSE UNDEFINED

\* variant: the client leaves the first letter of a header as it is
client_treeToMarkdown_plain(tree, level) ==
    Flatten([ i \in DOMAIN tree |->
        << "#", "#", " " >> \o toText(nameOf(tree[i])) \o << "\n" >> ])

RECURSIVE client_treeToMarkdown(_, _)
\* treeToMarkdown of the client, applied to the tree of the JSON reply
client_treeToMarkdown(tree, level) ==
    Flatten([ i \in DOMAIN tree |->
        (IF level = 0
         THEN repeat(<< " ", " " >>, level) \o << "#", "#", " " >>
                \o capitalize(nameOf(tree[i])) \o << "\n" >>
         ELSE repeat(<< " ", " " >>, level) \o << "-", " " >>
                \o toText(nameOf(tree[i])) \o << "\n" >>)
        \o (IF hasChildren(tree[i])
            THEN client_treeToMarkdown(tree[i].children, level + 1)
            ELSE << >>) ])

\* fetchDirectoryTree: the tree property of the reply, null included
fetchDirectoryTree(reply) == reply.tree

\* the click handler of generateBtn: the text put into #markdownOutput for a
\* reply, nothing when the tree of the reply is null
markdownOutput(reply) ==
    IF fetchDirectoryTree(reply).null THEN << >>
    ELSE Title \o client_treeToMarkdown(fetchDirectoryTree(reply).nodes, 0)

----------------------------------------------------------------------------
\* Snapshot writer

\* <timestamp>_<baseName>_by_<startingClassName>.md: the timestamp is the
\* local time cut to whole seconds
fileNameOf(clock, baseName, startingClassName) ==
    [timestamp |-> clock, baseName |-> baseName, by |-> startingClassName]

\* variant: the write leaves no other file in the folder
writeFileSync_only(files, fileName, content) ==
    { [name |-> fileName, content |-> content] }

\* fs.writeFileSync(filePath, content): creates the file or replaces its content
writeFileSync(files, fileName, content) ==
    { f \in files : f.name # fileName } \cup { [name |-> fileName, content |-> content] }

\* saveMarkdownFile: the folder is created when missing, then the file is
\* written; mkdirThrows and writeThrows are what the file system answers
saveMarkdownFile(markdownContent, baseName, startingClassName, mkdirThrows, writeThrows) ==
    LET fileName == fileNameOf(now, baseName, startingClassName)
    IN  IF ~historyExists /\ mkdirThrows
        THEN [thrown |-> TRUE, exists |-> historyExists, files |-> history]
        ELSE IF writeThrows
        THEN [thrown |-> TRUE, exists |-> TRUE, files |-> history]
        ELSE [thrown |-> FALSE, exists |-> TRUE,
              files |-> writeFileSync(history, fileName, markdownContent)]

----------------------------------------------------------------------------
\* Request handler

\* req.query.startingClassName: absent, or a string
Absent == [present |-> FALSE, value |-> ""]
Given(v) == [present |-> TRUE, value |-> v]
Queries == { Absent, Given(""), Given("user"), Given("activity"), Given("foo") }

\* req.query.startingClassName || 'user'
startingClassNameOf(query) ==
    IF ~query.present \/ query.value = "" THEN "user" ELSE query.value

\* !startingClassName || !["user", "activity"].includes(startingClassName)
rejected(startingClassName) ==
    startingClassName = "" \/ startingClassName \notin { "user", "activity" }

RECURSIVE toJSON(_)
\* the tree as res.json sends it: a property whose value is undefined is left out
toJSON(tree) ==
    Array([ i \in DOMAIN tree |->
        IF "children" \in DOMAIN tree[i]
        THEN IF tree[i].name = UNDEFINED
             THEN [children |-> toJSON(tree[i].children)]
             ELSE [name |-> tree[i].name, children |-> toJSON(tree[i].children)]
        ELSE IF tree[i].name = UNDEFINED
             THEN [k \in {} |-> << >>]
             ELSE [name |-> tree[i].name] ])

NullTree == [null |-> TRUE, nodes |-> << >>]
TreeOf(tree) == [null |-> FALSE, nodes |-> toJSON(tree)]

NoError == "null"

\* res.status(400).json({error_msg: ..., tree: null})
badRequest ==
    [status |-> 400,
     error_msg |-> "Invalid or missing parameter: 'startingClassName' must be 'user' or 'activity'.",
     tree |-> NullTree]

\* variant: the snapshot failure drops the tree
saveFailed_null(tree) ==
    [status |-> 500, error_msg |-> "Failed to save the Markdown file.", tree |-> NullTree]

\* res.status(500).json({error_msg: "Failed to save ...", tree: tree})
saveFailed(tree) ==
    [status |-> 500, error_msg |-> "Failed to save the Markdown file.", tree |-> TreeOf(tree)]

\* res.json({error_msg: null, tree: tree})
success(tree) ==
    [status |-> 200, error_msg |-> NoError, tree |-> TreeOf(tree)]

\* variant: the build failure is answered as a success with an empty tree
buildFailed_empty ==
    [status |-> 200, error_msg |-> NoError, tree |-> TreeOf(<< >>)]

\* res.status(500).json({error_msg: "An error occurred ...", tree: null})
buildFailed ==
    [status |-> 500, error_msg |-> "An error occurred while generating the tree.",
     tree |-> NullTree]

\* before the first request
NoResponse == [status |-> 0, error_msg |-> NoError, tree |-> NullTree]

\* the array the previous call of buildTree returned, if any
previousTree == IF trace.buildCalled /\ ~trace.buildThrown THEN trace.built ELSE << >>

NoTrace ==
    [query |-> Absent, served |-> FALSE, buildCalled |-> FALSE, buildThrown |-> FALSE,
     built |-> << >>, reads |-> 0, markdown |-> << >>, save |-> "none",
     replies |-> 0]

\* the handler from the validation to the rendering, for the value the query
\* resolved to: validation, buildTree, treeToMarkdown
getTreeBuild(startingClassName) ==
    With(IF rejected(startingClassName) THEN Throw(0)
         ELSE buildTree(fs, startingClassName, previousTree), LAMBDA build :
        [startingClassName |-> startingClassName,
         ran |-> ~rejected(startingClassName),
         build |-> build,
         saving |-> ~rejected(startingClassName) /\ ~build.thrown,
         markdownContent |->
             IF ~rejected(startingClassName) /\ ~build.thrown
             THEN Title \o treeToMarkdown(build.value, 0) ELSE << >>])

\* variant: the catch of the snapshot failure does not return, and the handler
\* goes on to res.json
afterSaveFailure_fallsThrough(tree) == << success(tree) >>

\* what the handler sends after the reply of the snapshot failure: nothing,
\* the catch block returns
afterSaveFailure(tree) == << >>

\* the replies the handler sends, in order, on the path the request takes
sent(b, saved) ==
    IF ~b.ran THEN << badRequest >>
    ELSE IF b.build.thrown THEN << buildFailed >>
    ELSE IF saved.thrown
    THEN << saveFailed(b.build.value) >> \o afterSaveFailure(b.build.value)
    ELSE << success(b.build.value) >>

\* the rest of the handler: saveMarkdownFile and the reply; the result is the
\* reply the client receives and what the request leaves behind
getTreeReply(query, b, mkdirThrows, writeThrows) ==
    With(saveMarkdownFile(b.markdownContent, "data_collection_tree",
                          b.startingClassName, mkdirThrows, writeThrows), LAMBDA saved :
        [response |-> Head(sent(b, saved)),
         specificActivityName |->
              IF b.ran /\ b.startingClassName = "user"
              THEN resetSpecificActivityName ELSE specificActivityName,
         historyExists |-> IF b.saving THEN saved.exists ELSE historyExists,
         history |-> IF b.saving THEN saved.files ELSE history,
         trace |-> [query |-> query, served |-> TRUE,
                    buildCalled |-> b.ran,
                    buildThrown |-> b.ran /\ b.build.thrown,
                    built |-> IF b.saving THEN b.build.value ELSE << >>,
                    reads |-> b.build.reads,
                    markdown |-> b.markdownContent,
                    save |-> IF ~b.saving THEN "none"
                             ELSE IF saved.thrown THEN "threw" ELSE "ok",
                    replies |-> Len(sent(b, saved))]])

\* what the file system answers to the snapshot writer: both calls succeed,
\* mkdirSync throws, or writeFileSync throws
Answers == { <<FALSE, FALSE>>, <<TRUE, FALSE>>, <<FALSE, TRUE>> }

\* GET /get-tree: one request is served from start to end; the requests that
\* resolve to one startingClassName share the build
GetTree(startingClassName) ==
    \E b \in { getTreeBuild(startingClassName) } :
    \E query \in { q \in Queries : startingClassNameOf(q) = startingClassName } :
    \E answer \in Answers :
    \E done \in { getTreeReply(query, b, answer[1], answer[2]) } :
        /\ response' = done.response
        /\ specificActivityName' = done.specificActivityName
        /\ historyExists' = done.historyExists
        /\ history' = done.history
        /\ trace' = done.trace
        /\ firstTree' =
              IF b.ran /\ ~firstTree[b.startingClassName].seen
              THEN [firstTree EXCEPT ![b.startingClassName] =
                        [seen |-> TRUE, tree |-> done.response.tree,
                         built |-> done.trace.built]]
              ELSE firstTree
        /\ UNCHANGED <<INSTANCE_NAMES, fs, now, call>>

\* a second passes on the local clock
Tick ==
    /\ now < MaxClock
    /\ now' = now + 1
    /\ UNCHANGED <<INSTANCE_NAMES, fs, specificActivityName, historyExists,
                   history, response, trace, firstTree, call>>

----------------------------------------------------------------------------
\* Names used by the registries and the directory layouts drawn at start

n_user == << "u", "s", "e", "r" >>
n_us == << "u", "s" >>
n_7 == << "7" >>
n_walk == << "w", "a", "l", "k" >>
n_wa == << "w", "a" >>
n_run == << "r", "u", "n" >>
n_accel == << "a", "c", "c", "e", "l" >>
n_gyro == << "g", "y", "r", "o" >>
n_acc == << "a", "c", "c" >>
n_01 == << "0", "1" >>
n_02 == << "0", "2" >>
d_user_01 == << "u", "s", "e", "r", "_", "0", "1" >>
d_user_01_b == << "u", "s", "e", "r", "_", "0", "1", "_", "b" >>
d_user_03 == << "u", "s", "e", "r", "_", "0", "3" >>
d_user_04 == << "u", "s", "e", "r", "_", "0", "4" >>
d_user_05 == << "u", "s", "e", "r", "_", "0", "5" >>
d_user07 == << "u", "s", "e", "r", "0", "7" >>
d_7_01 == << "7", "_", "0", "1" >>
d_walk_01 == << "w", "a", "l", "k", "_", "0", "1" >>
d_walk_b_01 == << "w", "a", "l", "k", "_", "b", "_", "0", "1" >>
d_run_01 == << "r", "u", "n", "_", "0", "1" >>
d_run_fast_02 == << "r", "u", "n", "_", "f", "a", "s", "t", "_", "0", "2" >>
d_walk_09 == << "w", "a", "l", "k", "_", "0", "9" >>
d_jog_01 == << "j", "o", "g", "_", "0", "1" >>
f_accel_csv == << "a", "c", "c", "e", "l", ".", "c", "s", "v" >>
f_accel_csv1_csv ==
    << "a", "c", "c", "e", "l", ".", "c", "s", "v", "1", ".", "c", "s", "v" >>
f_gyro_csv == << "g", "y", "r", "o", ".", "c", "s", "v" >>
f_notes_txt == << "n", "o", "t", "e", "s", ".", "t", "x", "t" >>
f_accel_txt == << "a", "c", "c", "e", "l", ".", "t", "x", "t" >>

\* registries: disjoint prefixes; overlapping prefixes and a prefix that reads
\* as an integer, in another order;
\* no data_type category; empty prefix lists; no user category
Registries ==
    { [user |-> << n_user >>, activity |-> << n_walk, n_run >>, data_type |-> << n_accel >>],
      [user |-> << n_user, n_7, n_us >>, activity |-> << n_run, n_walk, n_wa >>,
       data_type |-> << n_gyro, n_accel, n_acc >>],
      [user |-> << n_user >>, activity |-> << n_walk, n_run >>],
      [user |-> << n_user >>, activity |-> << >>, data_type |-> << >>],
      [activity |-> << n_walk >>, data_type |-> << n_accel >>] }

\* entries a data_collection directory may hold
RootEntries ==
    << Dir(d_user_01, << Dir(d_walk_01, << File(f_accel_csv) >>),
                         Dir(d_run_01, << File(f_accel_csv) >>) >>),
       Dir(d_user_01_b, << Dir(d_walk_01, << File(f_notes_txt), File(f_gyro_csv),
                                             File(f_accel_csv) >>),
                           Dir(d_walk_b_01, << File(f_accel_csv) >>) >>),
       Dir(d_user_03, << Dir(d_run_01, << >>), File(d_walk_09),
                         Dir(d_run_fast_02, << File(f_accel_txt) >>),
                         Dir(d_jog_01, << File(f_accel_csv) >>) >>),
       Dir(d_user_04, << BadDir(d_walk_01) >>),
       File(d_user_05),
       Dir(d_user07, << Dir(d_run_fast_02, << File(f_accel_csv),
                                              File(f_accel_csv1_csv) >>) >>),
       Dir(d_7_01, << Dir(d_walk_01, << File(f_accel_csv) >>) >>) >>

\* Array.prototype.reverse, not in place
reversed(l) == [ i \in DOMAIN l |-> l[Len(l) + 1 - i] ]

\* the listings of at most n consecutive entries of these, in this order and
\* in the opposite order
Listings(n) ==
    LET runs == { SubSeq(RootEntries, i, j) :
                    i \in 1..(Len(RootEntries) + 1), j \in 0..Len(RootEntries) }
        kept == { l \in runs : Len(l) <= n }
    IN  kept \cup { reversed(l) : l \in kept }

n_data_collection == << "d","a","t","a","_","c","o","l","l","e","c","t","i","o","n" >>

\* the data_collection directories drawn at start; the directory may be missing
Layouts ==
    { Dir(n_data_collection, l) : l \in Listings(MaxRootEntries) }
    \cup { BadDir(n_data_collection) }

Modes == { "user", "activity" }

NoCall == [fn |-> "none", name |-> << >>, folder |-> BadDir(<< >>), className |-> "",
           tree |-> << >>,
           result |-> Throw(0)]

\* a registry with every category and at least one prefix for each
Complete(registry) ==
    /\ DOMAIN registry = { "user", "activity", "data_type" }
    /\ \A c \in DOMAIN registry : registry[c] # << >>

\* the registry and the directory the server starts with: every directory with
\* a registry that lacks nothing, the directories of at most one entry with
\* the others
Init ==
    /\ INSTANCE_NAMES \in Registries
    /\ fs \in Layouts
    /\ (Complete(INSTANCE_NAMES) \/ Len(fs.entries) <= 1)
    /\ specificActivityName = UNDECLARED
    /\ now = 0
    /\ historyExists = FALSE
    /\ history = {}
    /\ response = NoResponse
    /\ trace = NoTrace
    /\ firstTree = [m \in Modes |-> [seen |-> FALSE, tree |-> NullTree, built |-> << >>]]
    /\ call = NoCall

Request ==
    \E startingClassName \in { startingClassNameOf(q) : q \in Queries } :
        GetTree(startingClassName)

Next == Request \/ Tick

Spec == Init /\ [][Next]_vars

----------------------------------------------------------------------------
\* Direct calls of the prefix matcher and the folder grouper

ClassNames == { "user", "activity", "data_type", "trial" }

TestNames == { d_user_01, d_user07, n_us, n_user, << "u" >>, << >>, d_walk_01,
               d_run_fast_02, f_accel_csv, f_gyro_csv, d_7_01 }

\* the root folder, its entries and their entries
Folders ==
    { fs } \cup Range(fs.entries)
    \cup UNION { Range(fs.entries[i].entries) : i \in DOMAIN fs.entries }

CallIsValidInstance(name, className) ==
    /\ call' = [fn |-> "isValidInstance", name |-> name, folder |-> BadDir(<< >>),
                tree |-> << >>,
                className |-> className, result |-> isValidInstance(name, className)]
    /\ UNCHANGED <<INSTANCE_NAMES, fs, specificActivityName, now, historyExists,
                   history, response, trace, firstTree>>

CallGetGroupedFolders(folderPath, className) ==
    /\ call' = [fn |-> "getGroupedFolders", name |-> << >>, folder |-> folderPath,
                tree |-> << >>,
                className |-> className,
                result |-> getGroupedFolders(folderPath, className)]
    /\ UNCHANGED <<INSTANCE_NAMES, fs, specificActivityName, now, historyExists,
                   history, response, trace, firstTree>>

\* the tree of the example in the documentation of treeToMarkdown
DocTree ==
    << Node(<< "U","s","e","r","1" >>,
         << Node(<< "A","c","t","i","v","i","t","y","1" >>,
              << Node(<< "T","r","i","a","l","1" >>,
                   << Leaf(<< "F","i","l","e","1" >>) >>) >>) >> ) >>

RECURSIVE Subforests(_)
\* a list of nodes and the lists of children below it
Subforests(tree) ==
    { tree } \cup UNION { IF hasChildren(tree[i]) THEN Subforests(tree[i].children)
                          ELSE {} : i \in DOMAIN tree }

\* the trees handed to the renderer: the trees buildTree returns for the
\* directory, the lists of children inside them, the documented example, a
\* node with an empty list of children, a list of two roots and the empty tree
Trees ==
    UNION { Subforests(b.value) :
              b \in { c \in { buildTree(fs, m, << >>) : m \in Modes } : ~c.thrown } }
    \cup { DocTree, << >>, << Node(n_user, << >>), Leaf(n_walk) >>,
           << Node(n_run, << Leaf(n_01), Node(n_02, << Leaf(n_accel) >>) >>),
              Node(n_walk, << Leaf(n_gyro) >>) >> }

CallTreeToMarkdown(tree) ==
    /\ call' = [fn |-> "treeToMarkdown", name |-> << >>, folder |-> BadDir(<< >>),
                tree |-> tree, className |-> "",
                result |-> Return(treeToMarkdown(tree, 0), 0)]
    /\ UNCHANGED <<INSTANCE_NAMES, fs, specificActivityName, now, historyExists,
                   history, response, trace, firstTree>>

InitCalls == Init

NextCalls ==
    \/ \E name \in TestNames, className \in ClassNames :
          CallIsValidInstance(name, className)
    \/ \E folderPath \in Folders, className \in ClassNames :
          CallGetGroupedFolders(folderPath, className)
    \/ \E tree \in Trees : CallTreeToMarkdown(tree)

SpecCalls == InitCalls /\ [][NextCalls]_vars

----------------------------------------------------------------------------
\* Properties of the request handler

\* the mode the last request was served in
servedMode == startingClassNameOf(trace.query)

\* the last request built a tree
Built == trace.served /\ trace.buildCalled /\ ~trace.buildThrown

\* the snapshot of this second for the mode of the last request
snapshotOfNow ==
    { f \in history : f.name = fileNameOf(now, "data_collection_tree", servedMode) }

\* C1: a request whose startingClassName is present and is neither 'user' nor
\* 'activity' is answered 400 with tree null and an error message, before any
\* directory is read and without a snapshot being written
C1_PresentInvalidIs400 ==
    (trace.served /\ trace.query.present /\ trace.query.value \notin { "user", "activity" })
    => /\ response.status = 400
       /\ response.tree.null
       /\ response.error_msg # NoError
       /\ trace.reads = 0
       /\ trace.save = "none"

\* C2: when buildTree returns and saveMarkdownFile throws, the reply is 500
\* with an error message and with the tree that was built, not null
C2_SaveFailureKeepsTree ==
    (Built /\ trace.save = "threw")
    => /\ response.status = 500
       /\ response.error_msg # NoError
       /\ ~response.tree.null
       /\ response.tree.nodes = toJSON(trace.built)

C2_Witness ==
    /\ Built /\ trace.save = "threw"
    /\ trace.built # << >>
    /\ response.status = 500

\* C3: when a directory read or a registry lookup throws during buildTree, the
\* request is answered 500 with tree null and it writes no snapshot file and
\* creates no folder
C3_BuildFailureIsNull ==
    [][ (trace'.served /\ trace'.buildThrown)
        => /\ response'.status = 500
           /\ response'.tree.null
           /\ trace'.save = "none"
           /\ history' = history
           /\ historyExists' = historyExists ]_vars

C3_Witness ==
    /\ trace.served /\ trace.buildThrown
    /\ trace.reads > 1
    /\ response.status = 500 /\ response.tree.null

\* C4: the reply is 200 exactly when startingClassName is valid or omitted,
\* buildTree returned and the snapshot was written; then error_msg is null,
\* tree is the built tree and the snapshot holds the title line followed by
\* the rendering of that tree
C4_OkIffAllSucceeded ==
    trace.served
    => /\ (response.status = 200)
            <=> /\ (~trace.query.present \/ trace.query.value \in { "user", "activity" })
                /\ Built
                /\ trace.save = "ok"
       /\ (response.status = 200)
            => /\ response.error_msg = NoError
               /\ response.tree = TreeOf(trace.built)
               /\ \E f \in snapshotOfNow :
                      f.content = Title \o treeToMarkdown(trace.built, 0)

----------------------------------------------------------------------------
\* Properties of the tree

\* the file names of the trial directories of the layout that end in .csv and
\* start with a registered data_type prefix, without their extension
QualifyingLeaves ==
    { replace(f.name, CSV, << >>) :
        f \in { g \in UNION { Range(t.entries) :
                      t \in UNION { Range(u.entries) : u \in Range(fs.entries) } } :
                  /\ endsWith(g.name, CSV)
                  /\ registered("data_type")
                  /\ \E p \in Range(INSTANCE_NAMES["data_type"]) :
                        \E n \in 0..Len(g.name) : SubSeq(g.name, 1, n) = p } }

RECURSIVE Pruned(_, _)
\* every node of the four levels above the leaves has a child, every node of
\* the fifth level is a leaf named after a qualifying file
Pruned(nodes, level) ==
    \A i \in DOMAIN nodes :
        IF level = 4
        THEN "children" \notin DOMAIN nodes[i] /\ nodes[i].name \in QualifyingLeaves
        ELSE /\ "children" \in DOMAIN nodes[i]
             /\ nodes[i].children # << >>
             /\ Pruned(nodes[i].children, level + 1)

C6_Registry ==
    [user |-> << n_user >>, activity |-> << n_walk, n_run >>, data_type |-> << n_accel >>]

C6_Layout ==
    Dir(n_data_collection,
        << Dir(d_user_01, << Dir(d_walk_01, << File(f_accel_csv) >>),
                             Dir(d_run_01, << File(f_accel_csv) >>) >>) >>)

C6_Expected ==
    << [name |-> n_user, children |->
        << [name |-> n_01, children |->
            << [name |-> n_walk, children |->
                   << [name |-> n_01, children |-> << [name |-> n_accel] >>] >>],
               [name |-> n_run, children |->
                   << [name |-> n_01, children |-> << [name |-> n_accel] >>] >>] >>] >>] >>

\* C6: with registry user=[user], activity=[walk, run], data_type=[accel] and
\* user_01/walk_01/accel.csv, user_01/run_01/accel.csv, buildTree in user mode
\* returns user -> 01 -> (walk -> 01 -> accel, run -> 01 -> accel), walk first
C6_EndToEnd ==
    (Built /\ servedMode = "user" /\ INSTANCE_NAMES = C6_Registry /\ fs = C6_Layout)
    => trace.built = C6_Expected

C6_Witness ==
    /\ Built /\ servedMode = "user"
    /\ INSTANCE_NAMES = C6_Registry /\ fs = C6_Layout
    /\ trace.built = C6_Expected

RECURSIVE Paths(_)
\* the root-to-leaf paths of a tree, as sequences of node names
Paths(nodes) ==
    UNION { IF hasChildren(nodes[i])
            THEN { << nodes[i].name >> \o p : p \in Paths(nodes[i].children) }
            ELSE { << nodes[i].name >> } : i \in DOMAIN nodes }

LeafNames(nodes) == { p[Len(p)] : p \in Paths(nodes) }

\* both modes have returned a tree
BothBuilt ==
    \A m \in Modes : firstTree[m].seen /\ ~firstTree[m].tree.null

\* the layout has exactly one directory and that directory holds exactly one
\* directory
OneUserOneActivity ==
    /\ fs.readable
    /\ Cardinality({ i \in DOMAIN fs.entries : fs.entries[i].isDir }) = 1
    /\ \A i \in DOMAIN fs.entries :
          fs.entries[i].isDir =>
             Cardinality({ j \in DOMAIN fs.entries[i].entries :
                             fs.entries[i].entries[j].isDir }) = 1

\* C7 as stated: with one user directory and one activity directory the two
\* modes give the same leaf names and differ only in the order of the top two
\* levels
C7_TopTwoLevelsSwapped ==
    (BothBuilt /\ OneUserOneActivity)
    => /\ LeafNames(firstTree["user"].built) = LeafNames(firstTree["activity"].built)
       /\ Paths(firstTree["activity"].built) =
            { << p[2], p[1], p[3], p[4], p[5] >> : p \in Paths(firstTree["user"].built) }

\* C7 amended: with one user directory and one activity directory the two modes
\* give the same leaf names, and the paths of the activity tree are the paths
\* of the user tree with the activity name moved from the third level to the
\* first, the other levels keeping their order
C7_ActivityLevelMovesToTop ==
    (BothBuilt /\ OneUserOneActivity)
    => /\ LeafNames(firstTree["user"].built) = LeafNames(firstTree["activity"].built)
       /\ Paths(firstTree["activity"].built) =
            { << p[3], p[1], p[2], p[4], p[5] >> : p \in Paths(firstTree["user"].built) }

C7_Witness ==
    /\ BothBuilt /\ OneUserOneActivity
    /\ firstTree["user"].built # << >>
    /\ Cardinality(LeafNames(firstTree["activity"].built)) = 2

\* C8: with the directory and the registry unchanged, every request of a mode
\* returns the tree the first request of that mode returned, whatever was
\* served in between
C8_Idempotent ==
    (trace.served /\ trace.buildCalled)
    => /\ firstTree[servedMode].seen
       /\ response.tree = firstTree[servedMode].tree

\* two user-mode requests in different seconds and an activity-mode request
\* have been served, and the last request returned a tree with a branch
C8_Witness ==
    /\ Built /\ trace.built # << >>
    /\ specificActivityName = NULL
    /\ \E f, g, h \in history :
          /\ f.name.by = "user" /\ g.name.by = "user"
          /\ f.name.timestamp # g.name.timestamp
          /\ h.name.by = "activity"

----------------------------------------------------------------------------
\* Properties of the prefix matcher and the folder grouper (SpecCalls)

\* prefix is an initial segment of name
IsPrefix(prefix, name) == \E n \in 0..Len(name) : SubSeq(name, 1, n) = prefix

\* C9: isValidInstance(name, category) returns true exactly when name starts
\* with a prefix registered for the category (false for an empty list), and
\* throws when the category is not in the registry
C9_PrefixMatcher ==
    call.fn = "isValidInstance"
    => IF call.className \in DOMAIN INSTANCE_NAMES
       THEN /\ ~call.result.thrown
            /\ call.result.value
                 <=> \E p \in Range(INSTANCE_NAMES[call.className]) : IsPrefix(p, call.name)
       ELSE call.result.thrown

\* a name longer than the prefix it starts with was accepted
C9_Witness ==
    /\ call.fn = "isValidInstance"
    /\ call.name = d_user_01 /\ call.className = "user"
    /\ ~call.result.thrown /\ call.result.value = TRUE

\* the names of the directories of a listing that start with prefix, in
\* listing order
DirectoriesWith(entries, prefix) ==
    LET ord == SelectIdx(Len(entries),
                         { e \in DOMAIN entries :
                             entries[e].isDir /\ IsPrefix(prefix, entries[e].name) })
    IN  [ i \in DOMAIN ord |-> entries[ord[i]].name ]

\* C10: for a directory listing and a registered category, getGroupedFolders
\* returns one key per registered prefix, empty buckets included, and the
\* bucket of a prefix is the directories whose name starts with it, in listing
\* order: in every bucket they match, and no plain file in any
C10_FolderGrouper ==
    (/\ call.fn = "getGroupedFolders"
     /\ call.className \in DOMAIN INSTANCE_NAMES
     /\ call.folder.isDir /\ call.folder.readable)
    => /\ ~call.result.thrown
       /\ { call.result.value[i].key : i \in DOMAIN call.result.value }
            = Range(INSTANCE_NAMES[call.className])
       /\ Len(call.result.value) = Cardinality(Range(INSTANCE_NAMES[call.className]))
       /\ \A i \in DOMAIN call.result.value :
             call.result.value[i].folders
               = DirectoriesWith(call.folder.entries, call.result.value[i].key)

\* a listing with two directories of one prefix and a plain file of another
\* prefix, whose bucket stays empty
C10_Witness ==
    /\ call.fn = "getGroupedFolders" /\ ~call.result.thrown
    /\ \E i, j \in DOMAIN call.result.value :
          /\ call.result.value[i].folders = << >>
          /\ Len(call.result.value[j].folders) = 2
          /\ \E e \in DOMAIN call.folder.entries :
                /\ ~call.folder.entries[e].isDir
                /\ IsPrefix(call.result.value[i].key, call.folder.entries[e].name)

----------------------------------------------------------------------------
\* Properties of the activity-mode tree

\* the directories among the entries of a directory
Directories(dir) == { e \in Range(dir.entries) : e.isDir }

----------------------------------------------------------------------------
\* Properties of the renderer (SpecCalls)

RECURSIVE preorder(_, _)
\* the nodes of a tree in depth-first pre-order, children in their stored
\* order, each with its depth
preorder(tree, depth) ==
    Flatten([ i \in DOMAIN tree |->
        << [name |-> tree[i].name, depth |-> depth] >>
        \o (IF "children" \in DOMAIN tree[i]
            THEN preorder(tree[i].children, depth + 1) ELSE << >>) ])

\* the depth of a tree: the number of levels that hold a node
DepthOf(tree) == Cardinality({ n.depth : n \in Range(preorder(tree, 0)) })

\* the lines of a text in which every line ends with a line feed
LinesOf(text) ==
    LET parts == split(text, "\n") IN SubSeq(parts, 1, Len(parts) - 1)

\* the number of spaces a line starts with
LeadingSpaces(line) ==
    Cardinality({ n \in 1..Len(line) : \A k \in 1..n : line[k] = " " })

\* a line without the spaces it starts with
Unindented(line) == SubSeq(line, LeadingSpaces(line) + 1, Len(line))

----------------------------------------------------------------------------
\* Properties of the snapshot history

\* the names of the files of the history folder
NamesOf(files) == { f.name : f \in files }

\* C13 as stated: every request that ends with a successful snapshot write
\* leaves one file more in the history folder
C13_EachWriteAddsAFile ==
    [][ (now' = now /\ trace'.served /\ trace'.save = "ok")
        => Cardinality(history') = Cardinality(history) + 1 ]_vars

\* C13 amended: a request that ends with a successful snapshot write leaves
\* in the history folder the file named for the current second and the mode,
\* holding the rendering of the tree, and leaves every other file as it was:
\* one file more, unless a file of that name was there (a request of the same
\* mode in the same second), which is overwritten; no step removes a file
C13_WriteAddsOrOverwrites ==
    [][ /\ NamesOf(history) \subseteq NamesOf(history')
        /\ (now' = now /\ trace'.served /\ trace'.save = "ok")
           => LET name == fileNameOf(now, "data_collection_tree",
                                     startingClassNameOf(trace'.query))
              IN  /\ [name |-> name, content |-> trace'.markdown] \in history'
                  /\ NamesOf(history') = NamesOf(history) \cup { name }
                  /\ { f \in history' : f.name # name } = { f \in history : f.name # name }
                  /\ Cardinality(history') = Cardinality(NamesOf(history'))
                  /\ (Cardinality(history') = Cardinality(history) + 1)
                        <=> (name \notin NamesOf(history))
        /\ (now' = now /\ trace'.served /\ trace'.save # "ok") => history' = history ]_vars

\* snapshots of both modes and of two different seconds are in the folder after
\* a successful write
C13_Witness ==
    /\ trace.served /\ trace.save = "ok"
    /\ Cardinality(history) >= 3
    /\ \E f, g \in history : f.name.timestamp # g.name.timestamp /\ f.name.by = g.name.by

----------------------------------------------------------------------------
\* Properties of the names of the nodes

\* a file name without its last four characters, the extension
BaseName(name) == SubSeq(name, 1, Len(name) - Len(CSV))

\* the files of the trial directories of the layout that end in .csv and start
\* with a registered data_type prefix
QualifyingFiles ==
    { f \in UNION { Range(t.entries) :
                      t \in UNION { Directories(u) : u \in Directories(fs) } } :
        /\ endsWith(f.name, CSV)
        /\ registered("data_type")
        /\ \E p \in Range(INSTANCE_NAMES["data_type"]) : IsPrefix(p, f.name) }

\* C14: every leaf of the returned tree is named by the base name of a
\* qualifying file: the file name without its trailing '.csv', nothing else
\* changed
C14_LeafIsBaseName ==
    Built => \A leaf \in LeafNames(trace.built) :
                 \E f \in QualifyingFiles : leaf = BaseName(f.name)

\* the second of the segments of a directory name that underscores delimit,
\* if the name has two
HasSecondSegment(name) == Len(split(name, "_")) >= 2
SecondSegment(name) == split(name, "_")[2]

\* C15: the name of every user-instance node of the returned tree is a string,
\* the second underscore-delimited segment of a directory of the user prefix
\* above it
C15_InstanceIsSecondSegment ==
    Built
    => \A p \in Paths(trace.built) :
          LET prefix == IF servedMode = "user" THEN p[1] ELSE p[2]
              id     == IF servedMode = "user" THEN p[2] ELSE p[3]
          IN  /\ id # UNDEFINED
              /\ \E u \in Directories(fs) :
                    /\ IsPrefix(prefix, u.name)
                    /\ HasSecondSegment(u.name)
                    /\ id = SecondSegment(u.name)

----------------------------------------------------------------------------
\* Properties of the indentation (SpecCalls)

\* the output the documentation of treeToMarkdown gives for its example
DocOutput ==
    << "#","#"," ","U","s","e","r","1","\n",
       "-"," ","A","c","t","i","v","i","t","y","1","\n",
       " "," ","-"," ","T","r","i","a","l","1","\n",
       " "," "," "," ","-"," ","F","i","l","e","1","\n" >>

\* C16: a node of depth 1 is rendered with no leading space and every further
\* depth adds two spaces, and the documented example is rendered as documented
C16_FirstBulletUnindented ==
    call.fn = "treeToMarkdown"
    => LET ls == LinesOf(call.result.value)
           ns == preorder(call.tree, 0)
       IN  /\ \A i \in DOMAIN ns \cap DOMAIN ls :
                 ns[i].depth >= 1 => LeadingSpaces(ls[i]) = 2 * (ns[i].depth - 1)
           /\ call.tree = DocTree => call.result.value = DocOutput

----------------------------------------------------------------------------
\* Properties of the order of the branches

RECURSIVE IsSubsequence(_, _)
\* s is t with some elements left out
IsSubsequence(s, t) ==
    IF s = << >> THEN TRUE
    ELSE IF t = << >> THEN FALSE
    ELSE IF Head(s) = Head(t) THEN IsSubsequence(Tail(s), Tail(t))
    ELSE IsSubsequence(s, Tail(t))

\* the names of the top-level nodes of a tree, in order
TopNames(tree) == [ i \in DOMAIN tree |-> tree[i].name ]

\* C17: the top-level nodes of the returned tree are in the registry order of
\* the prefixes of the root category, some left out by the pruning
C17_TopLevelInRegistryOrder ==
    Built => IsSubsequence(TopNames(trace.built), INSTANCE_NAMES[servedMode])

----------------------------------------------------------------------------
\* Properties of the replies and of the state between requests

\* C18: every request sends exactly one reply, on each of the four paths of
\* the handler: the rejection, the build failure, the snapshot failure and the
\* success
C18_ExactlyOneReply ==
    trace.served
    => /\ trace.replies = 1
       /\ ~trace.buildCalled => response.status = 400
       /\ trace.buildThrown => response.status = 500
       /\ trace.save = "threw" => response.status = 500
       /\ trace.save = "ok" => response.status = 200
       /\ \/ ~trace.buildCalled
          \/ trace.buildThrown
          \/ trace.save \in { "threw", "ok" }

\* a request whose snapshot could not be written because the folder could not
\* be created was answered once
C18_Witness ==
    /\ trace.served /\ trace.save = "threw"
    /\ ~historyExists
    /\ trace.replies = 1
    /\ response.status = 500

\* a step that serves a user-mode request which passes the validation
UserModeStep ==
    /\ now' = now
    /\ trace'.served /\ trace'.buildCalled
    /\ startingClassNameOf(trace'.query) = "user"

\* C19 as stated: the registry is never changed, and after every request the
\* global specificActivityName is null
C19_GlobalNullBetweenRequests ==
    [][ /\ INSTANCE_NAMES' = INSTANCE_NAMES
        /\ trace'.served => specificActivityName' = NULL ]_vars

\* C19 amended: the registry is never changed; the global specificActivityName
\* does not exist until the first user-mode request and is null from then on,
\* so that it never holds an activity name between requests
C19_GlobalAbsentOrNull ==
    [][ /\ INSTANCE_NAMES' = INSTANCE_NAMES
        /\ specificActivityName' \in { UNDECLARED, NULL }
        /\ UserModeStep => specificActivityName' = NULL
        /\ specificActivityName = NULL => specificActivityName' = NULL
        /\ (specificActivityName = UNDECLARED /\ specificActivityName' = NULL)
              => UserModeStep ]_vars

\* an activity-mode request that returned a tree with a branch was served
\* after a user-mode request, and the global is null
C19_Witness ==
    /\ Built /\ servedMode = "activity" /\ trace.built # << >>
    /\ firstTree["user"].seen
    /\ specificActivityName = NULL

----------------------------------------------------------------------------
\* Properties of the client

\* C20: for every reply that carries a tree, the outline the client renders
\* from the JSON tree is the text the server rendered from the tree it built,
\* and after a successful request it is the content of the snapshot written
C20_ClientRendersSnapshot ==
    (trace.served /\ ~response.tree.null)
    => /\ markdownOutput(response) = trace.markdown
       /\ markdownOutput(response) = Title \o treeToMarkdown(trace.built, 0)
       /\ trace.save = "ok"
            => \E f \in history :
                  f.name.by = servedMode /\ f.content = markdownOutput(response)

\* a tree with a user-instance node whose name is undefined, which the JSON
\* reply carries without a name property, was returned and saved
C20_Witness ==
    /\ trace.served /\ trace.save = "ok"
    /\ ~response.tree.null
    /\ \E i \in DOMAIN response.tree.nodes :
          \E j \in DOMAIN response.tree.nodes[i].children :
              "name" \notin DOMAIN response.tree.nodes[i].children[j]
    /\ Len(markdownOutput(response)) > Len(Title)

\* the number of registered prefixes of a category that a name starts with
Matches(name, className) ==
    Cardinality({ p \in Range(INSTANCE_NAMES[className]) : IsPrefix(p, name) })

\* the entries of a trial directory that become leaves: the name ends in
\* '.csv' and starts with a registered data_type prefix
LeafFiles(t) ==
    SelectSeq(t.entries, LAMBDA f :
        /\ endsWith(f.name, CSV)
        /\ registered("data_type")
        /\ Matches(f.name, "data_type") > 0)

\* the directories of a user directory that become trials of an activity
\* prefix, in listing order: the name starts with the prefix and a leaf is in
LeafTrials(u, activity) ==
    SelectSeq(u.entries, LAMBDA t :
        t.isDir /\ IsPrefix(activity, t.name) /\ Len(LeafFiles(t)) > 0)

\* the activity prefixes a user directory has a trial for, all of them or,
\* in a pass for one activity, that one
LeafActivities(u, pass) ==
    { a \in Range(INSTANCE_NAMES["activity"]) :
        (pass = NULL \/ a = pass) /\ Len(LeafTrials(u, a)) > 0 }

\* the directories of data_collection that become instances of a user
\* prefix, in listing order
LeafUsers(user, pass) ==
    SelectSeq(fs.entries, LAMBDA u :
        u.isDir /\ IsPrefix(user, u.name) /\ LeafActivities(u, pass) # {})

\* the trial nodes are the trial directories with a leaf, one node each, and
\* each holds one leaf per qualifying file
TrialsOneEach(trials, dirs) ==
    /\ Len(trials) = Len(dirs)
    /\ \A m \in DOMAIN trials : Len(trials[m].children) = Len(LeafFiles(dirs[m]))

\* the instance nodes under a user prefix are the user directories that hold
\* a leaf, one node each, none merged
InstancesOneEach(userNode, pass) ==
    LET users == LeafUsers(userNode.name, pass)
    IN  /\ Len(userNode.children) = Len(users)
        /\ \A j \in DOMAIN userNode.children :
              LET instance == userNode.children[j]
              IN  IF pass = NULL
                  THEN /\ Len(instance.children) = Cardinality(LeafActivities(users[j], NULL))
                       /\ \A a \in Range(instance.children) :
                             TrialsOneEach(a.children, LeafTrials(users[j], a.name))
                  ELSE TrialsOneEach(instance.children, LeafTrials(users[j], pass))

\* the sum of a sequence of numbers
RECURSIVE Sum(_)
Sum(ns) == IF ns = << >> THEN 0 ELSE Head(ns) + Sum(Tail(ns))

\* the instance nodes of a user-mode tree, counted
InstanceNodes(tree) == Sum([ i \in DOMAIN tree |-> Len(tree[i].children) ])

Readable ==
    /\ fs.readable
    /\ \A u \in Directories(fs) :
          u.readable /\ \A t \in Directories(u) : t.readable

\* the trial directories the walk reaches: a directory whose name starts with
\* a registered activity prefix, inside a directory of data_collection whose
\* name starts with a registered user prefix
ReachedTrials ==
    UNION { { t \in Directories(u) : Matches(t.name, "activity") > 0 } :
              u \in { d \in Directories(fs) : Matches(d.name, "user") > 0 } }

\* the last request called buildTree under a registry that has the user and
\* activity categories and no data_type category, on a layout whose
\* directories can all be listed
WithoutDataType ==
    /\ trace.served /\ trace.buildCalled
    /\ registered("user") /\ registered("activity") /\ ~registered("data_type")
    /\ Readable

C22_WitnessSucceeds ==
    /\ WithoutDataType
    /\ ~trace.buildThrown /\ trace.built = << >>
    /\ ReachedTrials # {}
    /\ \E u \in Directories(fs) : \E t \in Directories(u) :
          /\ t \notin ReachedTrials
          /\ \E f \in Range(t.entries) : endsWith(f.name, CSV)

====
